---- MODULE Spec2Model ----
(***************************************************************************)
(* Model of llm_structure.py: the schema translator                        *)
(* parse_schema_to_pydantic_model and the `structure` command.             *)
(*                                                                         *)
(* YAML documents are values [k, s, m]: k is the kind ("map", "seq",       *)
(* "str", "int", "none"), s the text of a scalar, m the entries of a       *)
(* mapping or sequence, each entry a record [key, val] (key "" in a        *)
(* sequence).  Mappings keep insertion order, as Python dicts do.          *)
(* Identifiers that are searched for substrings are sequences of           *)
(* one-character strings.                                                  *)
(***************************************************************************)
EXTENDS Integers, Sequences, FiniteSets, TLC

VARIABLES pc, prompt, schema, model, schema_dict, DynamicModel, json_schema,
          model_id, client, response, result, exc, stdout, stderr, requests,
          get_model_calls, decision

vars == <<pc, prompt, schema, model, schema_dict, DynamicModel, json_schema,
          model_id, client, response, result, exc, stdout, stderr, requests,
          get_model_calls, decision>>

(***************************************************************************)
(* Bounds                                                                  *)
(***************************************************************************)
MaxFields == 2

MaxPad == 1

(***************************************************************************)
(* YAML values                                                             *)
(***************************************************************************)
Str(t) == [k |-> "str", s |-> t, m |-> <<>>]

Num(t) == [k |-> "int", s |-> t, m |-> <<>>]

None == [k |-> "none", s |-> "", m |-> <<>>]

MapOf(entries) == [k |-> "map", s |-> "", m |-> entries]

SeqOf(entries) == [k |-> "seq", s |-> "", m |-> entries]

Entry(key, val) == [key |-> key, val |-> val]

Item(val) == [key |-> "", val |-> val]

EmptyMap == MapOf(<<>>)

EmptyList == SeqOf(<<>>)

\* isinstance(v, dict)
IsDict(v) == v.k = "map"

HashableAny(v) == TRUE

\* Whether hash(v) succeeds: dict and list values are unhashable.
Hashable(v) == v.k \notin {"map", "seq"}

\* key in d, for a dict d
HasKey(d, key) == \E i \in 1..Len(d.m) : d.m[i].key = key

\* d.get(key, default), for a dict d
Get(d, key, default) ==
  IF HasKey(d, key)
    THEN d.m[CHOOSE i \in 1..Len(d.m) : d.m[i].key = key].val
    ELSE default

\* Whether `x in v` can be evaluated: None and numbers are not containers.
IsContainer(v) == v.k \in {"map", "seq", "str"}

\* sub in s, for strings
Substring(sub, s) ==
  \E i \in 0..(Len(s) - Len(sub)) : SubSeq(s, i + 1, i + Len(sub)) = sub

\* name in v: an item of a list, a key of a dict, a substring of a string
Member(name, v) ==
  CASE v.k = "seq" ->
         \E i \in 1..Len(v.m) : v.m[i].val.k = "str" /\ v.m[i].val.s = name
    [] v.k = "map" -> \E i \in 1..Len(v.m) : v.m[i].key = name
    [] v.k = "str" -> Substring(name, v.s)

(***************************************************************************)
(* parse_schema_to_pydantic_model                                          *)
(***************************************************************************)
SimpleNames == {"str", "int", "float", "bool", "list", "dict"}

type_mapping_simple ==
  [n \in SimpleNames |->
     CASE n = "str"   -> "String"
       [] n = "int"   -> "Integer"
       [] n = "float" -> "Float"
       [] n = "bool"  -> "Boolean"
       [] n = "list"  -> "List"
       [] n = "dict"  -> "Mapping"]

JsonNames == {"string", "integer", "number", "boolean", "array", "object"}

type_mapping_json_bad ==
  [n \in JsonNames |->
     CASE n = "string"  -> "String"
       [] n = "integer" -> "Integer"
       [] n = "number"  -> "Integer"
       [] n = "boolean" -> "Boolean"
       [] n = "array"   -> "List"
       [] n = "object"  -> "Mapping"]

type_mapping_json ==
  [n \in JsonNames |->
     CASE n = "string"  -> "String"
       [] n = "integer" -> "Integer"
       [] n = "number"  -> "Float"
       [] n = "boolean" -> "Boolean"
       [] n = "array"   -> "List"
       [] n = "object"  -> "Mapping"]

\* type_mapping.get(v, Any) for a hashable v: only a string can be a key
\* of the table.
Lookup(table, v) ==
  IF v.k = "str" /\ v.s \in DOMAIN table THEN table[v.s] ELSE "Any"

Field(name, type, required) == [name |-> name, type |-> type, required |-> required]

\* create_model(name, **fields)
create_model(name, fields) == [name |-> name, fields |-> fields]

NoModel == create_model("", <<>>)

Returned(m) == [ok |-> TRUE, err |-> "", model |-> m]

Raised(e) == [ok |-> FALSE, err |-> e, model |-> NoModel]

\* The test of line 9, for a dict.
IsSimpleShape(d) == Len(d.m) = 1 /\ IsDict(d.m[1].val)

SimpleFieldOptional(e) == Field(e.key, Lookup(type_mapping_simple, e.val), FALSE)

\* Lines 26-27.
SimpleField(e) == Field(e.key, Lookup(type_mapping_simple, e.val), TRUE)

\* Lines 10-29.
ParseSimple(d) ==
  LET model_name == d.m[1].key
      fields_dict == d.m[1].val
      n == Len(fields_dict.m)
  IN  IF \E i \in 1..n : ~Hashable(fields_dict.m[i].val)
        THEN Raised("TypeError")
        ELSE Returned(create_model(model_name,
                        [i \in 1..n |-> SimpleField(fields_dict.m[i])]))

IsRequiredLoose(name, required) == TRUE

\* default = ... if field_name in required else None
IsRequired(name, required) == Member(name, required)

\* The exception one iteration of the loop of lines 45-48 raises, or "".
JsonFieldError(e, required) ==
  CASE ~IsDict(e.val)                       -> "AttributeError"
    [] IsDict(e.val)
       /\ ~Hashable(Get(e.val, "type", None)) -> "TypeError"
    [] IsDict(e.val)
       /\ Hashable(Get(e.val, "type", None))
       /\ ~IsContainer(required)            -> "TypeError"
    [] OTHER                                -> ""

\* Lines 46-48.
JsonField(e, required) ==
  Field(e.key, Lookup(type_mapping_json, Get(e.val, "type", None)),
        IsRequired(e.key, required))

\* Lines 32-50.
ParseJson(d) ==
  LET properties == Get(d, "properties", EmptyMap)
      required == Get(d, "required", EmptyList)
      n == Len(properties.m)
      failing == {i \in 1..n : JsonFieldError(properties.m[i], required) # ""}
      first == CHOOSE i \in failing : \A j \in failing : i <= j
  IN  IF ~IsDict(properties) THEN Raised("AttributeError")
      ELSE IF failing # {}
        THEN Raised(JsonFieldError(properties.m[first], required))
        ELSE Returned(create_model(Get(d, "title", Str("DynamicModel")).s,
                        [i \in 1..n |-> JsonField(properties.m[i], required)]))

\* Lines 7-50.  len() of None or of a number raises TypeError; a string or
\* a list has a length but neither .values() nor .get().
parse_schema_to_pydantic_model(d) ==
  CASE d.k \in {"none", "int"} -> Raised("TypeError")
    [] d.k \in {"str", "seq"}  -> Raised("AttributeError")
    [] OTHER -> IF IsSimpleShape(d) THEN ParseSimple(d) ELSE ParseJson(d)

(***************************************************************************)
(* DynamicModel.model_json_schema()                                        *)
(***************************************************************************)
\* The JSON-Schema type name pydantic emits for a field type ("" for Any,
\* which is emitted without a type key).
JsonTypeOf(t) ==
  CASE t = "String"  -> "string"
    [] t = "Integer" -> "integer"
    [] t = "Float"   -> "number"
    [] t = "Boolean" -> "boolean"
    [] t = "List"    -> "array"
    [] t = "Mapping" -> "object"
    [] OTHER         -> ""

NoSchema == [title |-> "", properties |-> <<>>, required |-> <<>>]

model_json_schema(m) ==
  [title |-> m.name,
   properties |-> [i \in 1..Len(m.fields) |->
                     [name |-> m.fields[i].name, type |-> JsonTypeOf(m.fields[i].type)]],
   required |-> LET req == SelectSeq(m.fields, LAMBDA f : f.required)
                IN  [i \in 1..Len(req) |-> req[i].name]]

(***************************************************************************)
(* The structured-output support test (line 80)                            *)
(***************************************************************************)
GPT4 == <<"g", "p", "t", "-", "4">>

GPT4O == <<"g", "p", "t", "-", "4", "o">>

O1 == <<"o", "1">>

\* sub in s, for strings
Contains(s, sub) ==
  \E i \in 0..(Len(s) - Len(sub)) : SubSeq(s, i + 1, i + Len(sub)) = sub

SupportedGpt4(id) == (Contains(id, O1) \/ Contains(id, GPT4)) /\ id # GPT4

Supported(id) == (Contains(id, O1) \/ Contains(id, GPT4O)) /\ id # GPT4

(***************************************************************************)
(* The environment of one invocation                                       *)
(***************************************************************************)
\* Scenario A
PersonDoc ==
  MapOf(<<Entry("Person", MapOf(<<Entry("name", Str("str")),
                                  Entry("age", Str("int"))>>))>>)

\* Scenario B
ItemDoc ==
  MapOf(<<Entry("title", Str("Item")),
          Entry("properties",
                MapOf(<<Entry("qty", MapOf(<<Entry("type", Str("integer"))>>))>>)),
          Entry("required", EmptyList)>>)

PropsDoc ==
  MapOf(<<Entry("properties",
                MapOf(<<Entry("qty", MapOf(<<Entry("type", Str("integer"))>>))>>))>>)

\* The files of the working directory: path -> parsed YAML document, or
\* Unparseable when yaml.safe_load raises on the text.
Unparseable == [k |-> "invalid", s |-> "", m |-> <<>>]

Files ==
  [p \in {"person.yaml", "item.json", "props.json", "scalar.yaml", "broken.yaml"} |->
     CASE p = "person.yaml" -> PersonDoc
       [] p = "item.json"   -> ItemDoc
       [] p = "props.json"  -> PropsDoc
       [] p = "scalar.yaml" -> Str("Person")
       [] p = "broken.yaml" -> Unparseable]

Paths == DOMAIN Files \cup {"missing.yaml"}

Prompts == {"Describe a person", ""}

\* The option default of line 60.
DefaultModel == GPT4

\* The models llm knows, by name or alias, and the model_id of each.
Registry ==
  [n \in {GPT4, GPT4O, GPT4O \o <<"-", "m">>, O1, O1 \o <<"-", "m">>,
          <<"g", "p", "t", "-", "3">>, <<"4", "o">>, <<"p", "r", "o", "1">>} |->
     IF n = <<"4", "o">> THEN GPT4O ELSE n]

ModelNames == DOMAIN Registry \cup {DefaultModel, <<"n", "o">>}

\* What client.beta.chat.completions.parse can do: raise, or return a
\* response with no choices, or one whose first message has this content.
NoResponse == [kind |-> "none", content |-> ""]

Responses ==
  {[kind |-> "raise", content |-> ""],
   [kind |-> "nochoices", content |-> ""],
   [kind |-> "null", content |-> ""],
   [kind |-> "content", content |-> ""],
   [kind |-> "content", content |-> "{\"name\": \"Ada\", \"age\": 36}"]}

\* if result:
TruthyNotNone(r) == r.kind = "content"

Truthy(r) == r.kind = "content" /\ r.content # ""

UserMessage(p) == [role |-> "user", content |-> p]

ErrorLine(msg) == <<"Error: ", msg>>

(***************************************************************************)
(* The structure command (lines 62-98), one action per statement           *)
(***************************************************************************)
Init ==
  /\ pc = "start"
  /\ prompt \in Prompts
  /\ schema \in Paths
  /\ model \in ModelNames
  /\ schema_dict = None
  /\ DynamicModel = NoModel
  /\ json_schema = NoSchema
  /\ model_id = <<>>
  /\ client = "none"
  /\ response = NoResponse
  /\ result = NoResponse
  /\ exc = ""
  /\ stdout = <<>>
  /\ stderr = <<>>
  /\ requests = <<>>
  /\ get_model_calls = 0
  /\ decision = "none"

Raise(msg) == pc' = "except" /\ exc' = msg

LoadSchemaOrEmpty ==
  /\ pc = "start"
  /\ IF schema \notin DOMAIN Files
       THEN pc' = "loaded" /\ schema_dict' = EmptyMap /\ UNCHANGED exc
     ELSE IF Files[schema] = Unparseable
       THEN Raise("YAML syntax error") /\ UNCHANGED schema_dict
       ELSE pc' = "loaded" /\ schema_dict' = Files[schema] /\ UNCHANGED exc
  /\ UNCHANGED <<client, prompt, schema, model, DynamicModel, json_schema, model_id,
                 response, result, stdout, stderr, requests, get_model_calls,
                 decision>>

\* Lines 70-71.
LoadSchema ==
  /\ pc = "start"
  /\ IF schema \notin DOMAIN Files
       THEN Raise("No such file or directory") /\ UNCHANGED schema_dict
     ELSE IF Files[schema] = Unparseable
       THEN Raise("YAML syntax error") /\ UNCHANGED schema_dict
       ELSE pc' = "loaded" /\ schema_dict' = Files[schema] /\ UNCHANGED exc
  /\ UNCHANGED <<client, prompt, schema, model, DynamicModel, json_schema, model_id,
                 response, result, stdout, stderr, requests, get_model_calls,
                 decision>>

\* Line 74.
Translate ==
  /\ pc = "loaded"
  /\ LET r == parse_schema_to_pydantic_model(schema_dict)
     IN  IF r.ok
           THEN pc' = "translated" /\ DynamicModel' = r.model /\ UNCHANGED exc
           ELSE Raise(r.err) /\ UNCHANGED DynamicModel
  /\ UNCHANGED <<client, prompt, schema, model, schema_dict, json_schema, model_id,
                 response, result, stdout, stderr, requests, get_model_calls,
                 decision>>

\* Lines 77-78.
GetModel ==
  /\ pc = "translated"
  /\ get_model_calls' = get_model_calls + 1
  /\ IF model \in DOMAIN Registry
       THEN pc' = "resolved" /\ model_id' = Registry[model] /\ UNCHANGED exc
       ELSE Raise("Unknown model") /\ UNCHANGED model_id
  /\ UNCHANGED <<client, prompt, schema, model, schema_dict, DynamicModel, json_schema,
                 response, result, stdout, stderr, requests, decision>>

CheckSupportWarnOnly ==
  /\ pc = "resolved"
  /\ pc' = "supported"
  /\ decision' = IF Supported(model_id) THEN "accepted" ELSE "rejected"
  /\ UNCHANGED <<client, prompt, schema, model, schema_dict, DynamicModel, json_schema,
                 model_id, response, result, exc, stdout, stderr, requests,
                 get_model_calls>>

\* Lines 80, 93-94.
CheckSupport ==
  /\ pc = "resolved"
  /\ IF Supported(model_id)
       THEN pc' = "supported" /\ decision' = "accepted" /\ UNCHANGED exc
       ELSE Raise("Model does not support structured output")
            /\ decision' = "rejected"
  /\ UNCHANGED <<client, prompt, schema, model, schema_dict, DynamicModel, json_schema,
                 model_id, response, result, stdout, stderr, requests,
                 get_model_calls>>

\* Line 81: get_client() returns a client or raises (no API key, a model
\* class without get_client).
GetClient ==
  /\ pc = "supported"
  /\ \/ pc' = "client" /\ client' = "client" /\ UNCHANGED exc
     \/ Raise("No client") /\ UNCHANGED client
  /\ UNCHANGED <<prompt, schema, model, schema_dict, DynamicModel, json_schema,
                 model_id, response, result, stdout, stderr, requests,
                 get_model_calls, decision>>

\* Line 82.
JsonSchema ==
  /\ pc = "client"
  /\ json_schema' = model_json_schema(DynamicModel)
  /\ pc' = "schema"
  /\ UNCHANGED <<client, prompt, schema, model, schema_dict, DynamicModel, model_id,
                 response, result, exc, stdout, stderr, requests,
                 get_model_calls, decision>>

RequestWithRetry ==
  /\ pc = "schema"
  /\ \E r \in Responses :
       /\ response' = r
       /\ LET req == [model |-> model_id,
                      messages |-> <<UserMessage(prompt)>>,
                      response_format |-> DynamicModel.name]
          IN  requests' = IF r.kind = "raise"
                            THEN requests \o <<req, req>>
                            ELSE Append(requests, req)
       /\ IF r.kind = "raise"
            THEN Raise("API error")
            ELSE pc' = "responded" /\ UNCHANGED exc
  /\ UNCHANGED <<client, prompt, schema, model, schema_dict, DynamicModel, json_schema,
                 model_id, result, stdout, stderr, get_model_calls, decision>>

\* Lines 83-87.
Request ==
  /\ pc = "schema"
  /\ requests' = Append(requests, [model |-> model_id,
                                   messages |-> <<UserMessage(prompt)>>,
                                   response_format |-> DynamicModel.name])
  /\ \E r \in Responses :
       /\ response' = r
       /\ IF r.kind = "raise"
            THEN Raise("API error")
            ELSE pc' = "responded" /\ UNCHANGED exc
  /\ UNCHANGED <<client, prompt, schema, model, schema_dict, DynamicModel, json_schema,
                 model_id, result, stdout, stderr, get_model_calls, decision>>

\* Line 88.
TakeContent ==
  /\ pc = "responded"
  /\ IF response.kind = "nochoices"
       THEN Raise("list index out of range") /\ UNCHANGED result
       ELSE pc' = "result" /\ result' = response /\ UNCHANGED exc
  /\ UNCHANGED <<client, prompt, schema, model, schema_dict, DynamicModel, json_schema,
                 model_id, response, stdout, stderr, requests, get_model_calls,
                 decision>>

\* Lines 89-92.
PrintResult ==
  /\ pc = "result"
  /\ IF Truthy(result)
       THEN pc' = "done" /\ stdout' = Append(stdout, result.content)
            /\ UNCHANGED exc
       ELSE Raise("No response from model") /\ UNCHANGED stdout
  /\ UNCHANGED <<client, prompt, schema, model, schema_dict, DynamicModel, json_schema,
                 model_id, response, result, stderr, requests, get_model_calls,
                 decision>>

\* Lines 96-98.
HandleException ==
  /\ pc = "except"
  /\ stderr' = Append(stderr, ErrorLine(exc))
  /\ pc' = "aborted"
  /\ UNCHANGED <<client, prompt, schema, model, schema_dict, DynamicModel, json_schema,
                 model_id, response, result, exc, stdout, requests,
                 get_model_calls, decision>>

Next ==
  \/ LoadSchema
  \/ Translate
  \/ GetModel
  \/ CheckSupport
  \/ GetClient
  \/ JsonSchema
  \/ Request
  \/ TakeContent
  \/ PrintResult
  \/ HandleException

Spec == Init /\ [][Next]_vars

(***************************************************************************)
(* Properties of the structure command                                     *)
(***************************************************************************)
Finished == pc \in {"done", "aborted"}

NonEmptyContent(r) == r.kind = "content" /\ r.content # ""

\* C1: standard output receives text only when the completion request
\* returned non-empty content, and then exactly that content; every other
\* finished invocation wrote nothing to standard output, wrote the one line
\* 'Error: <message>' to standard error and aborted.
C1_AllOrNothing ==
  /\ stdout # <<>> =>
       /\ pc = "done"
       /\ NonEmptyContent(response)
       /\ stdout = <<response.content>>
  /\ pc = "done" => stdout # <<>> /\ stderr = <<>>
  /\ pc = "aborted" => stdout = <<>> /\ stderr = <<<<"Error: ", exc>>>>
  /\ stderr # <<>> => pc = "aborted"
  /\ Finished /\ ~NonEmptyContent(response) => pc = "aborted"
  /\ ~ENABLED Next => Finished

C1_Witness ==
  /\ pc = "aborted"
  /\ response.kind = "content"
  /\ response.content = ""
  /\ exc = "No response from model"

\* C2: once the resolved model identifier has failed the support test the
\* invocation ends with the unsupported-model error and no completion
\* request is ever issued; the identifier "gpt-4" always fails the test.
C2_UnsupportedNoRequest ==
  /\ decision = "rejected" =>
       /\ requests = <<>>
       /\ pc \in {"except", "aborted"}
       /\ exc = "Model does not support structured output"
  /\ model_id = GPT4 /\ pc # "resolved" => decision = "rejected"

C2_Witness == pc = "aborted" /\ model_id = GPT4 /\ decision = "rejected"

\* C3: when the schema file does not exist or cannot be read, the
\* invocation ends with an error and neither llm.get_model nor a completion
\* request happens at any point.
C3_MissingSchemaStopsEarly ==
  schema \notin DOMAIN Files =>
    /\ get_model_calls = 0
    /\ requests = <<>>
    /\ pc \in {"start", "except", "aborted"}
    /\ stdout = <<>>

C3_Witness == schema \notin DOMAIN Files /\ pc = "aborted" /\ stderr # <<>>

\* C4 as stated: every finished invocation whose support check passed has
\* issued exactly one completion request.
C4_ExactlyOneRequest ==
  Finished /\ decision = "accepted" => Len(requests) = 1

\* C4 amended: at most one completion request is ever issued, only after
\* the support check passed, and it carries the prompt as a single
\* user-role message; a finished invocation whose support check passed has
\* issued exactly one when get_client() returned a client and none when
\* get_client() raised.
C4_AtMostOneRequest ==
  /\ Len(requests) <= 1
  /\ requests # <<>> => decision = "accepted" /\ client = "client"
  /\ \A i \in 1..Len(requests) :
       /\ requests[i].messages = <<[role |-> "user", content |-> prompt]>>
       /\ requests[i].model = model_id
  /\ Finished /\ decision = "accepted" /\ client = "client" => Len(requests) = 1
  /\ Finished /\ decision = "accepted" /\ client = "none" => requests = <<>>

C4_Witness ==
  /\ pc = "aborted"
  /\ decision = "accepted"
  /\ Len(requests) = 1
  /\ response.kind = "null"

(***************************************************************************)
(* The support test on its own: every identifier built from a core and     *)
(* up to MaxPad characters before and after it                             *)
(***************************************************************************)
Alphabet == {"g", "p", "t", "-", "4", "o", "1"}

Pads == UNION {[1..n -> Alphabet] : n \in 0..MaxPad}

Cores == {<<>>, O1, GPT4, GPT4O, <<"o">>, <<"g", "p", "t", "-">>,
          <<"g", "p", "t", "-", "4", "-", "o">>}

InitSupport ==
  /\ pc = "resolved"
  /\ \E a \in Pads, c \in Cores, b \in Pads : model_id = a \o c \o b
  /\ model = model_id
  /\ prompt = ""
  /\ schema = "person.yaml"
  /\ schema_dict = PersonDoc
  /\ DynamicModel = parse_schema_to_pydantic_model(PersonDoc).model
  /\ json_schema = NoSchema
  /\ client = "none"
  /\ response = NoResponse
  /\ result = NoResponse
  /\ exc = ""
  /\ stdout = <<>>
  /\ stderr = <<>>
  /\ requests = <<>>
  /\ get_model_calls = 1
  /\ decision = "none"

NextSupport ==
  \/ CheckSupport
  \/ HandleException

SpecSupport == InitSupport /\ [][NextSupport]_vars

\* C10: the support test accepts an identifier iff it contains "o1" or
\* "gpt-4o"; the exclusion of "gpt-4" changes the decision for no
\* identifier.
C10_AcceptsIffAllowListed ==
  decision # "none" =>
    (decision = "accepted" <=>
       (Contains(model_id, <<"o", "1">>)
          \/ Contains(model_id, <<"g", "p", "t", "-", "4", "o">>)))

C10_Witness ==
  /\ decision = "rejected"
  /\ Contains(model_id, GPT4)
  /\ model_id # GPT4

(***************************************************************************)
(* The translator on its own: schema documents with at most MaxFields      *)
(* fields                                                                  *)
(***************************************************************************)
FieldNames == {"name", "age", "qty"}

TypeNames == SimpleNames \cup JsonNames \cup {"custom"}

\* Insertion orders of at most MaxFields distinct field names.
NameSeqs ==
  UNION {{ns \in [1..n -> FieldNames] :
            \A i, j \in 1..n : ns[i] = ns[j] => i = j} : n \in 0..MaxFields}

FieldMaps(values) ==
  UNION {{MapOf([i \in 1..Len(ns) |-> Entry(ns[i], f[i])]) :
            f \in [1..Len(ns) -> values]} : ns \in NameSeqs}

\* The values a field has in the simple form: a type name, or a value that
\* is no type name.
SimpleTypeValues ==
  {Str(n) : n \in TypeNames}
    \cup {None, MapOf(<<Entry("type", Str("string"))>>)}

\* The entries of properties: {type: <name>}, {}, {type: [string, null]},
\* or a bare type name.
FieldSchemas ==
  {MapOf(<<Entry("type", Str(n))>>) : n \in TypeNames}
    \cup {EmptyMap,
          MapOf(<<Entry("type", SeqOf(<<Item(Str("string")), Item(Str("null"))>>))>>),
          Str("string")}

\* A key that is present with a value, or absent.
Optional(key, values) == {<<Entry(key, v)>>: v \in values} \cup {<<>>}

RequiredValues ==
  {EmptyList,
   SeqOf(<<Item(Str("name"))>>),
   SeqOf(<<Item(Str("age")), Item(Str("name"))>>),
   SeqOf(<<Item(Str("qty"))>>),
   MapOf(<<Entry("age", None)>>),
   Str("surname"),
   Num("1"),
   None}

\* {Name: {field: type, ...}}
SimpleInput(d) ==
  \E fm \in FieldMaps(SimpleTypeValues), n \in {"Person", "Item"} :
    d = MapOf(<<Entry(n, fm)>>)

\* {title: ..., properties: {...}, required: [...]}, each key optional
JsonInput(d) ==
  \E p \in Optional("properties", FieldMaps(FieldSchemas) \cup {None, EmptyList}),
     t \in Optional("title", {Str("Item")}),
     r \in Optional("required", RequiredValues) :
    d = MapOf(t \o p \o r)

ScalarInputs == {None, Str("Person"), Num("7"), SeqOf(<<Item(Str("Person"))>>)}

InitTranslate ==
  /\ pc = "loaded"
  /\ \/ SimpleInput(schema_dict)
     \/ JsonInput(schema_dict)
     \/ schema_dict \in ScalarInputs
  /\ schema = "person.yaml"
  /\ prompt = ""
  /\ model = DefaultModel
  /\ DynamicModel = NoModel
  /\ json_schema = NoSchema
  /\ model_id = <<>>
  /\ client = "none"
  /\ response = NoResponse
  /\ result = NoResponse
  /\ exc = ""
  /\ stdout = <<>>
  /\ stderr = <<>>
  /\ requests = <<>>
  /\ get_model_calls = 0
  /\ decision = "none"

\* DynamicModel.model_json_schema() applied to the translated model.
Serialize ==
  /\ pc = "translated"
  /\ json_schema' = model_json_schema(DynamicModel)
  /\ pc' = "serialized"
  /\ UNCHANGED <<client, prompt, schema, model, schema_dict, DynamicModel, model_id,
                 response, result, exc, stdout, stderr, requests,
                 get_model_calls, decision>>

NextTranslate ==
  \/ Translate
  \/ Serialize

SpecTranslate == InitTranslate /\ [][NextTranslate]_vars

(***************************************************************************)
(* Properties of the translator                                            *)
(***************************************************************************)
Translated == pc \in {"translated", "serialized"}

Keys(d) == {d.m[i].key : i \in 1..Len(d.m)}

AllStrings(d) == \A i \in 1..Len(d.m) : d.m[i].val.k = "str"

\* The simple form of the data model: one key, whose value maps field
\* names to type-name strings.
SimpleForm(d) ==
  /\ d.k = "map"
  /\ Len(d.m) = 1
  /\ d.m[1].val.k = "map"
  /\ AllStrings(d.m[1].val)

\* The JSON-Schema-like form of the data model: optional title (string),
\* properties (field name -> mapping with a type string) and required
\* (sequence of field names).
JsonForm(d) ==
  /\ d.k = "map"
  /\ Keys(d) \subseteq {"title", "properties", "required"}
  /\ HasKey(d, "title") => Get(d, "title", None).k = "str"
  /\ HasKey(d, "properties") =>
       LET p == Get(d, "properties", None)
       IN  /\ p.k = "map"
           /\ \A i \in 1..Len(p.m) :
                /\ p.m[i].val.k = "map"
                /\ HasKey(p.m[i].val, "type")
                /\ Get(p.m[i].val, "type", None).k = "str"
  /\ HasKey(d, "required") =>
       LET r == Get(d, "required", None)
       IN  r.k = "seq" /\ AllStrings(r)

\* C5: for a simple-form schema {Name: {f1: t1, ...}} the translator returns
\* a model named Name whose fields are f1, f2, ... in the order of the inner
\* mapping, every one of them required.
C5_SimpleFormModel ==
  SimpleForm(schema_dict) /\ pc # "loaded" =>
    LET inner == schema_dict.m[1].val.m
    IN  /\ Translated
        /\ DynamicModel.name = schema_dict.m[1].key
        /\ Len(DynamicModel.fields) = Len(inner)
        /\ \A i \in 1..Len(inner) :
             /\ DynamicModel.fields[i].name = inner[i].key
             /\ DynamicModel.fields[i].required

C5_Witness ==
  /\ SimpleForm(schema_dict)
  /\ Translated
  /\ Len(DynamicModel.fields) = 2
  /\ DynamicModel.fields[1].name = "qty"
  /\ DynamicModel.fields[2].name = "age"

\* C6: for a JSON-Schema-form input the translator returns a model in which
\* a field of properties is required iff its name appears in the required
\* sequence, every other field being optional.
C6_RequiredIffListed ==
  JsonForm(schema_dict) /\ pc # "loaded" =>
    LET p == Get(schema_dict, "properties", EmptyMap).m
        r == Get(schema_dict, "required", EmptyList).m
    IN  /\ Translated
        /\ Len(DynamicModel.fields) = Len(p)
        /\ \A i \in 1..Len(p) :
             /\ DynamicModel.fields[i].name = p[i].key
             /\ DynamicModel.fields[i].required
                  <=> \E j \in 1..Len(r) : r[j].val.s = p[i].key

\* The type value the input gives for field i of the translated model.
InputType(d, i) ==
  IF IsSimpleShape(d)
    THEN d.m[1].val.m[i].val
    ELSE Get(Get(d, "properties", EmptyMap).m[i].val, "type", None)

\* The semantic type of each name of the vocabulary.
Semantic(n) ==
  CASE n \in {"string", "str"}   -> "String"
    [] n \in {"integer", "int"}  -> "Integer"
    [] n \in {"number", "float"} -> "Float"
    [] n \in {"boolean", "bool"} -> "Boolean"
    [] n \in {"array", "list"}   -> "List"
    [] n \in {"object", "dict"}  -> "Mapping"

Vocabulary ==
  {"string", "str", "integer", "int", "number", "float",
   "boolean", "bool", "array", "list", "object", "dict"}

\* C7 as stated: in both schema forms every name of the vocabulary resolves
\* to its semantic type and every other type-name string to "any".
C7_OneVocabulary ==
  Translated =>
    \A i \in 1..Len(DynamicModel.fields) :
      LET t == InputType(schema_dict, i)
      IN  t.k = "str" =>
            DynamicModel.fields[i].type =
              IF t.s \in Vocabulary THEN Semantic(t.s) ELSE "Any"

\* C7 amended: the simple form resolves str, int, float, bool, list, dict
\* and the JSON-Schema form resolves string, integer, number, boolean,
\* array, object, each to its semantic type (number and float both to
\* float); every other type-name string, the names of the other form
\* included, resolves to "any".
C7_VocabularyPerForm ==
  Translated =>
    \A i \in 1..Len(DynamicModel.fields) :
      LET t == InputType(schema_dict, i)
          names == IF Len(schema_dict.m) = 1 /\ schema_dict.m[1].val.k = "map"
                     THEN {"str", "int", "float", "bool", "list", "dict"}
                     ELSE {"string", "integer", "number", "boolean", "array", "object"}
      IN  t.k = "str" =>
            DynamicModel.fields[i].type =
              IF t.s \in names THEN Semantic(t.s) ELSE "Any"

C7_Witness ==
  /\ Translated
  /\ IsSimpleShape(schema_dict)
  /\ Len(DynamicModel.fields) = 2
  /\ InputType(schema_dict, 1) = Str("number")
  /\ InputType(schema_dict, 2) = Str("float")
  /\ DynamicModel.fields[1].type = "Any"
  /\ DynamicModel.fields[2].type = "Float"

\* The field names and the required names the input declares: in the
\* simple form every field is required.
InputFields(d) ==
  IF IsSimpleShape(d) THEN Keys(d.m[1].val)
                      ELSE Keys(Get(d, "properties", EmptyMap))

InputRequired(d) ==
  IF IsSimpleShape(d)
    THEN Keys(d.m[1].val)
    ELSE LET r == Get(d, "required", EmptyList)
         IN  {r.m[i].val.s : i \in 1..Len(r.m)}

\* The inputs that declare a required-set: the simple form, and the other
\* mappings whose required is absent or a sequence.
DeclaresRequired(d) ==
  IsSimpleShape(d) \/ Get(d, "required", EmptyList).k = "seq"

SchemaFields(js) == {js.properties[i].name : i \in 1..Len(js.properties)}

SchemaRequired(js) == {js.required[i] : i \in 1..Len(js.required)}

\* C8 as stated: serializing the translated model reproduces the field
\* names and the required-set of the input.
C8_RoundTrip ==
  pc = "serialized" /\ DeclaresRequired(schema_dict) =>
    /\ SchemaFields(json_schema) = InputFields(schema_dict)
    /\ SchemaRequired(json_schema) = InputRequired(schema_dict)

\* C8 amended: serializing the translated model reproduces the field names
\* of the input, and as required-set the required names of the input that
\* are field names.
C8_RoundTripWithinFields ==
  pc = "serialized" /\ DeclaresRequired(schema_dict) =>
    /\ SchemaFields(json_schema) = InputFields(schema_dict)
    /\ SchemaRequired(json_schema) =
         InputRequired(schema_dict) \cap InputFields(schema_dict)

C8_Witness ==
  /\ pc = "serialized"
  /\ ~IsSimpleShape(schema_dict)
  /\ InputRequired(schema_dict) = {"age", "name"}
  /\ InputFields(schema_dict) = {"name", "qty"}
  /\ SchemaRequired(json_schema) = {"name"}

\* C9 as stated: translation returns a model for every input whose top
\* level is a mapping.
C9_TotalOnMappings ==
  schema_dict.k = "map" /\ pc # "loaded" => Translated

Scalar(v) == v.k \in {"str", "int", "none"}

\* The inputs the translator returns a model for.
Interpretable(d) ==
  /\ d.k = "map"
  /\ IF Len(d.m) = 1 /\ d.m[1].val.k = "map"
       THEN \A i \in 1..Len(d.m[1].val.m) : Scalar(d.m[1].val.m[i].val)
       ELSE LET p == Get(d, "properties", EmptyMap)
                r == Get(d, "required", EmptyList)
            IN  /\ p.k = "map"
                /\ \A i \in 1..Len(p.m) :
                     /\ p.m[i].val.k = "map"
                     /\ Scalar(Get(p.m[i].val, "type", None))
                     /\ r.k \in {"seq", "map", "str"}

\* C9 amended: translation returns a model exactly for the mappings that
\* are interpretable under the rule that applies: a single key with a
\* mapping value needs scalar field types; any other mapping needs
\* properties absent or a mapping, and, when properties has entries, every
\* entry a mapping with an absent or scalar type and required absent or a
\* sequence, mapping or string.  Every other input raises.
C9_TotalOnInterpretable ==
  pc # "loaded" => (Translated <=> Interpretable(schema_dict))

C9_Witness ==
  /\ pc = "except"
  /\ schema_dict.k = "map"
  /\ Keys(schema_dict) = {"title", "properties", "required"}
  /\ exc = "AttributeError"

====
